---- MODULE Spec2Model ----
(***************************************************************************)
(* Model of the DataQuality class of src/dataquality.ipynb (code cell 1).  *)
(*                                                                         *)
(* A cell value is a Python object as dtype_change sees it: a record       *)
(* [t, n, s] with t the type tag, n the numeric payload (floats are kept   *)
(* in tenths, booleans as 0/1) and s the characters of a string.  None and *)
(* NaN are the one value Null.  A table is a pandas DataFrame: its ordered *)
(* columns and its rows, each row carrying its index label.  Tables live   *)
(* in a heap of objects so that "the same DataFrame object" and "a deep    *)
(* copy" are different things.                                             *)
(***************************************************************************)
EXTENDS Integers, Sequences, FiniteSets, TLC

VARIABLES heap, self_flagged, description, unique_identifiers, methods, ret, last,
          nformat

vars == <<heap, self_flagged, description, unique_identifiers, methods, ret, last,
          nformat>>

(* ---------------------------- bounds ----------------------------------- *)
MaxRows == 2
MaxCd == 2
MaxFormat == 2
MaxEngineFormat == 1
MaxDupRows == 4
MaxFormatRows == 2

(* ---------------------------- values ----------------------------------- *)
METHODS == {"duplicates", "null"}

Null == [t |-> "null", n |-> 0, s |-> << >>]
PyStr(s) == [t |-> "str", n |-> 0, s |-> s]
PyInt(n) == [t |-> "int", n |-> n, s |-> << >>]
PyFloat(n) == [t |-> "float", n |-> n, s |-> << >>]
PyBool(b) == [t |-> "bool", n |-> b, s |-> << >>]

Digits == <<"0", "1", "2", "3", "4", "5", "6", "7", "8", "9">>

IsDigit(c) == \E d \in 1..Len(Digits) : Digits[d] = c

DigitVal(c) == (CHOOSE d \in 1..Len(Digits) : Digits[d] = c) - 1

\* str.isnumeric() / str.isdecimal(): non-empty and every character a digit
isnumeric(s) == Len(s) > 0 /\ \A i \in 1..Len(s) : IsDigit(s[i])

RECURSIVE ParseInt(_)
\* int(value) of a string of digits
ParseInt(s) ==
  IF Len(s) = 0 THEN 0
  ELSE 10 * ParseInt(SubSeq(s, 1, Len(s) - 1)) + DigitVal(s[Len(s)])

RECURSIVE IntToStr(_)
\* str(value) of a non-negative int
IntToStr(n) ==
  IF n < 10 THEN <<Digits[n + 1]>>
  ELSE IntToStr(n \div 10) \o <<Digits[(n % 10) + 1]>>

\* str(value) of a non-negative float kept in tenths: "1.5", "2.0"
FloatToStr(n) == IntToStr(n \div 10) \o <<".">> \o <<Digits[(n % 10) + 1]>>

IsNum(v) == v.t \in {"int", "float", "bool"}

Num(v) == IF v.t = "float" THEN v.n ELSE 10 * v.n

\* variant: a missing value equals nothing, itself included
PyEq_NullNeverEqual(a, b) ==
  IF a = Null \/ b = Null THEN FALSE
  ELSE IF IsNum(a) /\ IsNum(b) THEN Num(a) = Num(b) ELSE a = b

\* equality as pandas hashes cell values in duplicated() and isin():
\* Python == on objects (1 == 1.0 == True), and missing values equal each other
PyEq(a, b) == IF IsNum(a) /\ IsNum(b) THEN Num(a) = Num(b) ELSE a = b

(* ---------------------------- tables ----------------------------------- *)
Objs == {"o_df", "o_fl", "o_ret"}

NoTable == [columns |-> << >>, rows |-> << >>]

SeqToSet(q) == {q[i] : i \in 1..Len(q)}

HasColumn(tb, c) == c \in SeqToSet(tb.columns)

\* tb[c] = series: an existing column is overwritten in place, a new one is
\* appended after the others
SetColumn(tb, c, series) ==
  [columns |-> IF HasColumn(tb, c) THEN tb.columns ELSE Append(tb.columns, c),
   rows |-> [i \in 1..Len(tb.rows) |->
               [idx |-> tb.rows[i].idx,
                cells |-> [k \in DOMAIN tb.rows[i].cells \cup {c} |->
                             IF k = c THEN series[i] ELSE tb.rows[i].cells[k]]]]]

\* tb.loc[:, cols]
Restrict(tb, cols) ==
  [columns |-> cols,
   rows |-> [i \in 1..Len(tb.rows) |->
               [idx |-> tb.rows[i].idx,
                cells |-> [k \in SeqToSet(cols) |-> tb.rows[i].cells[k]]]]]

RECURSIVE FilterRows(_, _)
\* tb[mask]: the rows whose mask entry is TRUE, index labels kept
FilterRows(rows, mask) ==
  IF Len(rows) = 0 THEN << >>
  ELSE LET rest == FilterRows(SubSeq(rows, 1, Len(rows) - 1),
                              SubSeq(mask, 1, Len(rows) - 1))
       IN IF mask[Len(rows)] THEN Append(rest, rows[Len(rows)]) ELSE rest

(* --------------------------- description ------------------------------- *)
\* DataFrame.replace of __self_or_none__, applied to one cell
Replaced(v) ==
  IF v = PyStr(<<"N", "o", "n", "e">>) THEN Null
  ELSE IF v = PyStr(<<"Y", "e", "s">>) THEN PyInt(1)
  ELSE IF v = PyStr(<<"N", "o">>) THEN PyInt(0)
  ELSE IF v.t = "bool" THEN PyInt(v.n)
  ELSE v

\* the "count" row of describe(include='all'): non-null cells per column
Count(tb, c) == Cardinality({i \in 1..Len(tb.rows) : Replaced(tb.rows[i].cells[c]) # Null})

\* describe() of the replaced table, then append of self.df.dtypes, which
\* adds the columns of self.df that the described table lacks (count NaN)
DescribeAll(flagged, df) ==
  LET extra == SelectSeq(df.columns, LAMBDA c : ~HasColumn(flagged, c))
      cols == flagged.columns \o extra
  IN [columns |-> cols,
      count |-> [c \in SeqToSet(cols) |->
                   IF HasColumn(flagged, c) THEN Count(flagged, c) ELSE 0]]

\* variant: the table passed is used as it is, without the deep copy
self_or_none_nocopy(h, sf, arg) ==
  LET src == IF arg = "none" THEN sf ELSE arg
  IN [obj |-> src,
      flagged |-> h[src],
      description |-> DescribeAll(h[src], h["o_df"])]

\* __self_or_none__(dataframe): arg is "none" or the object passed.  obj is
\* the object the local name `flagged` is bound to: self.flagged itself, or
\* a fresh deep copy ("o_new").
self_or_none(h, sf, arg) ==
  LET src == IF arg = "none" THEN sf ELSE arg
  IN [obj |-> IF arg = "none" THEN sf ELSE "o_new",
      flagged |-> h[src],
      description |-> DescribeAll(h[src], h["o_df"])]

Max(S) == CHOOSE m \in S : \A k \in S : k <= m

\* variant: a column qualifies only above half of count_max
IdentifierInference_Strict(df, desc) ==
  LET count_max == Max({desc.count[c] : c \in SeqToSet(desc.columns)})
  IN SelectSeq(df.columns,
               LAMBDA column : column # df.columns[1]
                               /\ 2 * desc.count[column] > count_max)

\* __init__, lines 54-58: the columns used to identify duplicates
IdentifierInference(df, desc) ==
  LET count_max == Max({desc.count[c] : c \in SeqToSet(desc.columns)})
  IN SelectSeq(df.columns,
               LAMBDA column : column # df.columns[1]
                               /\ 2 * desc.count[column] >= count_max)

(* ----------------------------- inputs ---------------------------------- *)
Cols == <<"hyperlink", "postcode", "surface">>

\* cell values of the tables the engine specification starts from
ColValues ==
  [hyperlink |-> {PyStr(<<"a">>), PyStr(<<"b">>)},
   postcode |-> {Null, PyStr(<<"1">>)},
   surface |-> {Null, PyBool(1)}]

\* cell values of the tables the values_format specification starts from
FormatColValues ==
  [hyperlink |-> {PyStr(<<"a">>)},
   postcode |-> {Null, PyStr(<<"1">>), PyStr(<<"a">>)},
   surface |-> {Null, PyInt(1), PyBool(1)}]

RowCells(cv) ==
  {f \in [SeqToSet(Cols) -> UNION {cv[c] : c \in SeqToSet(Cols)}] :
     \A c \in SeqToSet(Cols) : f[c] \in cv[c]}

\* pandas stores a column of ints and missing values as floats, so such a
\* column holds no int: only columns that keep their Python objects are drawn
PandasStable(tb) ==
  \A c \in SeqToSet(tb.columns) :
     LET vals == {tb.rows[i].cells[c] : i \in 1..Len(tb.rows)}
     IN (\E v \in vals : v.t = "int") /\ (\A v \in vals : v.t \in {"int", "float", "null"})
          => \A v \in vals : v.t = "int"

\* DataFrame(dict): default index labels 0, 1, ...
MkTable(cells) ==
  [columns |-> Cols,
   rows |-> [i \in 1..Len(cells) |-> [idx |-> i - 1, cells |-> cells[i]]]]

TablesOf(cv, maxrows) ==
  {tb \in {MkTable(q) : q \in UNION {[1..k -> RowCells(cv)] : k \in 1..maxrows}} :
     PandasStable(tb)}

Tables == TablesOf(ColValues, MaxRows)

FormatTables == TablesOf(FormatColValues, MaxFormatRows)

\* cell values of the longer tables the duplicate-detection specification
\* starts from
DupColValues ==
  [hyperlink |-> {PyStr(<<"a">>), PyStr(<<"b">>)},
   postcode |-> {Null, PyStr(<<"1">>)},
   surface |-> {PyBool(1)}]

DupTables == TablesOf(DupColValues, MaxDupRows)

\* the record of the latest call: its arguments and outcome, the table it was
\* aimed at before and after it, and whether it repeated the previous
\* successful call on the table that call returned
NoCall == [op |-> "init", arg |-> "none", ok |-> TRUE, err |-> "",
           before |-> NoTable, after |-> NoTable,
           cd |-> << >>, fill |-> Null, again |-> FALSE]

(* ------------------------------ Init ----------------------------------- *)
\* __init__ with a DataFrame: self.df is the caller's object, self.flagged a
\* deep copy of it
Construct(table, m) ==
  LET h0 == [o \in Objs |-> IF o = "o_df" THEN table ELSE NoTable]
      so == self_or_none(h0, "o_fl", "o_df")
      sf == IF so.obj = "o_new" THEN "o_fl" ELSE "o_df"
  IN /\ heap = [h0 EXCEPT ![sf] = so.flagged]
     /\ self_flagged = sf
     /\ description = so.description
     /\ unique_identifiers = IdentifierInference(table, so.description)
     /\ methods = m
     /\ ret = "none"
     /\ last = NoCall
     /\ nformat = 0

Init == \E table \in Tables, m \in SUBSET METHODS : Construct(table, m)

(* ------------------------------ flag ----------------------------------- *)
\* variant: keep='last', the earlier occurrences are the ones marked
Duplicated_KeepLast(tb, subset) ==
  [i \in 1..Len(tb.rows) |->
     IF \E j \in (i + 1)..Len(tb.rows) :
          \A k \in 1..Len(subset) :
             PyEq(tb.rows[j].cells[subset[k]], tb.rows[i].cells[subset[k]])
     THEN PyInt(1) ELSE PyInt(0)]

\* DataFrame.duplicated(subset=...).replace({True: 1, False: 0}): a row is
\* marked when an earlier row is equal to it on every column of subset
Duplicated(tb, subset) ==
  [i \in 1..Len(tb.rows) |->
     IF \E j \in 1..(i - 1) :
          \A k \in 1..Len(subset) :
             PyEq(tb.rows[j].cells[subset[k]], tb.rows[i].cells[subset[k]])
     THEN PyInt(1) ELSE PyInt(0)]

\* variant: counts the cells that are falsy (missing or zero) instead of missing
NullCount_Falsy(tb) ==
  [i \in 1..Len(tb.rows) |->
     PyInt(Cardinality({c \in SeqToSet(tb.columns) :
                          \/ tb.rows[i].cells[c] = Null
                          \/ IsNum(tb.rows[i].cells[c]) /\ tb.rows[i].cells[c].n = 0}))]

\* DataFrame.isnull().sum(axis=1): missing cells per row, over every column
\* the table has when the count is taken
NullCount(tb) ==
  [i \in 1..Len(tb.rows) |->
     PyInt(Cardinality({c \in SeqToSet(tb.columns) : tb.rows[i].cells[c] = Null}))]

\* body of flag, lines 87-92.  duplicated() raises KeyError for a subset
\* column the table lacks and ValueError for an empty subset (it unpacks the
\* per-column labels of no column); nothing has been assigned by then.
FlagTable(tb, m, ids) ==
  IF "duplicates" \in m /\ \E k \in 1..Len(ids) : ~HasColumn(tb, ids[k])
  THEN [ok |-> FALSE, err |-> "KeyError", table |-> tb]
  ELSE IF "duplicates" \in m /\ Len(ids) = 0
  THEN [ok |-> FALSE, err |-> "ValueError", table |-> tb]
  ELSE LET t1 == IF "duplicates" \in m
                 THEN SetColumn(tb, "duplicates", Duplicated(tb, ids)) ELSE tb
           t2 == IF "null" \in m
                 THEN SetColumn(t1, "null", NullCount(t1)) ELSE t1
       IN [ok |-> TRUE, err |-> "", table |-> t2]

\* the tables the caller can pass: the one given to the constructor and the
\* last table a call returned
Args == {"none", "o_df"} \cup (IF ret = "none" THEN {} ELSE {ret})

Again(op, target, cd, fill_empty) ==
  last.op = op /\ last.ok /\ ret = target /\ last.cd = cd /\ last.fill = fill_empty

\* the heap after a call whose local table object obj now holds tb: a fresh
\* object is the caller's new return value
Store(h, obj, tb) == [h EXCEPT ![IF obj = "o_new" THEN "o_ret" ELSE obj] = tb]

Returned(obj) == IF obj = "o_new" THEN "o_ret" ELSE obj

\* content, after the call, of the object the call was aimed at
After(h, target, obj, tb) == IF obj = target THEN tb ELSE h[target]

flag(arg) ==
  \E so \in {self_or_none(heap, self_flagged, arg)} :
  \E target \in {IF arg = "none" THEN self_flagged ELSE arg} :
  \E r \in {FlagTable(so.flagged, methods, unique_identifiers)} :
     /\ heap' = IF r.ok THEN Store(heap, so.obj, r.table) ELSE heap
     /\ ret' = IF r.ok THEN Returned(so.obj) ELSE ret
     /\ last' = [op |-> "flag", arg |-> arg, ok |-> r.ok, err |-> r.err,
                 before |-> heap[target],
                 after |-> IF r.ok THEN After(heap, target, so.obj, r.table)
                           ELSE heap[target],
                 cd |-> << >>, fill |-> Null,
                 again |-> Again("flag", target, << >>, Null)]
     /\ UNCHANGED <<self_flagged, description, unique_identifiers, methods, nformat>>

(* ---------------------------- describe --------------------------------- *)
describe(arg) ==
  \E so \in {self_or_none(heap, self_flagged, arg)} :
  \E target \in {IF arg = "none" THEN self_flagged ELSE arg} :
     /\ description' = IF arg = "none" THEN so.description ELSE description
     /\ last' = [op |-> "describe", arg |-> arg, ok |-> TRUE, err |-> "",
                 before |-> heap[target],
                 after |-> After(heap, target, so.obj, so.flagged),
                 cd |-> << >>, fill |-> Null,
                 again |-> Again("describe", target, << >>, Null)]
     /\ UNCHANGED <<heap, self_flagged, unique_identifiers, methods, ret, nformat>>

(* ------------------------------ clean ---------------------------------- *)
\* variant: a table without a duplicates column is deduplicated by clean
\* itself, on every column after the first
CleanTable_Flagging(flagged, desc) ==
  IF \E k \in 1..Len(desc.columns) : ~HasColumn(flagged, desc.columns[k])
  THEN [ok |-> FALSE, err |-> "KeyError", table |-> NoTable]
  ELSE LET cleaned == Restrict(flagged, desc.columns)
           marks == IF HasColumn(flagged, "duplicates")
                    THEN [i \in 1..Len(flagged.rows) |-> flagged.rows[i].cells["duplicates"]]
                    ELSE Duplicated(flagged, Tail(flagged.columns))
           id_column == flagged.columns[1]
           unique_id == {flagged.rows[i].cells[id_column] :
                           i \in {j \in 1..Len(flagged.rows) : PyEq(marks[j], PyInt(0))}}
           mask == [i \in 1..Len(cleaned.rows) |->
                      \E u \in unique_id : PyEq(cleaned.rows[i].cells[id_column], u)]
       IN [ok |-> TRUE, err |-> "",
           table |-> [columns |-> cleaned.columns,
                      rows |-> FilterRows(cleaned.rows, mask)]]

\* body of clean, lines 105-109.  .loc[:, description.columns] raises
\* KeyError when the description names a column the table lacks.
CleanTable(flagged, desc) ==
  IF \E k \in 1..Len(desc.columns) : ~HasColumn(flagged, desc.columns[k])
  THEN [ok |-> FALSE, err |-> "KeyError", table |-> NoTable]
  ELSE LET cleaned == Restrict(flagged, desc.columns)
       IN IF HasColumn(flagged, "duplicates")
          THEN LET id_column == flagged.columns[1]
                   unique_id == {flagged.rows[i].cells[id_column] :
                                   i \in {j \in 1..Len(flagged.rows) :
                                            PyEq(flagged.rows[j].cells["duplicates"], PyInt(0))}}
                   mask == [i \in 1..Len(cleaned.rows) |->
                              \E u \in unique_id : PyEq(cleaned.rows[i].cells[id_column], u)]
               IN [ok |-> TRUE, err |-> "",
                   table |-> [columns |-> cleaned.columns,
                              rows |-> FilterRows(cleaned.rows, mask)]]
          ELSE [ok |-> TRUE, err |-> "", table |-> cleaned]

clean(arg) ==
  \E so \in {self_or_none(heap, self_flagged, arg)} :
  \E target \in {IF arg = "none" THEN self_flagged ELSE arg} :
  \E r \in {CleanTable(so.flagged, so.description)} :
     /\ heap' = IF r.ok THEN [heap EXCEPT !["o_ret"] = r.table] ELSE heap
     /\ ret' = IF r.ok THEN "o_ret" ELSE ret
     /\ description' = IF r.ok /\ arg = "none" THEN so.description ELSE description
     /\ last' = [op |-> "clean", arg |-> arg, ok |-> r.ok, err |-> r.err,
                 before |-> heap[target],
                 after |-> After(heap, target, so.obj, so.flagged),
                 cd |-> << >>, fill |-> Null,
                 again |-> Again("clean", target, << >>, Null)]
     /\ UNCHANGED <<self_flagged, unique_identifiers, methods, nformat>>

(* -------------------------- values_format ------------------------------ *)
DTypes == {"str", "int", "float", "yn"}

Yes == PyStr(<<"Y", "e", "s">>)
No == PyStr(<<"N", "o">>)

\* variant: the numeric string is built with float() where int() is meant
StrToInt_AsFloat(s) == PyFloat(10 * ParseInt(s))

\* int(value), line 130
StrToInt(s) == PyInt(ParseInt(s))

\* float(value), line 132
StrToFloat(s) == PyFloat(10 * ParseInt(s))

Converted(v) == [ok |-> TRUE, value |-> v]
NotConverted(v) == [ok |-> FALSE, value |-> v]

\* dtype_change(value, column, dtype_requested), lines 120-153; ok = FALSE is
\* the raise of line 151
dtype_change(value, dtype_requested, fill_empty) ==
  IF value = Null \/ value = PyStr(<< >>) THEN Converted(fill_empty)
  ELSE IF value.t = dtype_requested THEN Converted(value)
  ELSE IF value.t = "str"
       THEN IF dtype_requested = "int" /\ isnumeric(value.s)
            THEN Converted(StrToInt(value.s))
            ELSE IF dtype_requested = "float" /\ isnumeric(value.s)
            THEN Converted(StrToFloat(value.s))
            ELSE IF dtype_requested = "yn"
            THEN IF value.s = <<"1">> \/ value.s = <<"T", "r", "u", "e">>
                 THEN Converted(Yes)
                 ELSE IF value.s = <<"0">> \/ value.s = <<"F", "a", "l", "s", "e">>
                 THEN Converted(No)
                 ELSE Converted(value)
            ELSE Converted(value)
  ELSE IF value.t = "bool"
       THEN IF dtype_requested = "yn"
            THEN (IF value.n = 1 THEN Converted(Yes) ELSE Converted(No))
            ELSE Converted(value)
  ELSE IF value.t = "int" /\ dtype_requested = "float"
       THEN Converted(PyFloat(10 * value.n))
  ELSE IF value.t = "float" /\ dtype_requested = "int" /\ value.n % 10 = 0
       THEN Converted(PyInt(value.n \div 10))
  ELSE IF dtype_requested = "str"
       THEN Converted(PyStr(IF value.t = "int" THEN IntToStr(value.n)
                            ELSE FloatToStr(value.n)))
  ELSE NotConverted(value)

\* __check_with_headers__, line 82
check_with_headers(cd, tb) == \A k \in 1..Len(cd) : HasColumn(tb, cd[k][1])

RECURSIVE FormatColumns(_, _, _, _)
\* the loop of lines 155-156 from entry k on: each column is replaced in the
\* table itself, and the first value that raises ends the loop
FormatColumns(tb, cd, k, fill_empty) ==
  IF k > Len(cd) THEN [ok |-> TRUE, table |-> tb]
  ELSE LET column == cd[k][1]
           res == [i \in 1..Len(tb.rows) |->
                     dtype_change(tb.rows[i].cells[column], cd[k][2], fill_empty)]
       IN IF \E i \in 1..Len(tb.rows) : ~res[i].ok
          THEN [ok |-> FALSE, table |-> tb]
          ELSE FormatColumns(SetColumn(tb, column,
                                       [i \in 1..Len(tb.rows) |-> res[i].value]),
                             cd, k + 1, fill_empty)

\* DataFrame.fillna(value=fill_empty), line 158: a new table
FillNa(tb, fill_empty) ==
  [columns |-> tb.columns,
   rows |-> [i \in 1..Len(tb.rows) |->
               [idx |-> tb.rows[i].idx,
                cells |-> [c \in DOMAIN tb.rows[i].cells |->
                             IF tb.rows[i].cells[c] = Null THEN fill_empty
                             ELSE tb.rows[i].cells[c]]]]]

\* columns_dtypes: a dict, iterated in insertion order
ColPos(c) == CHOOSE k \in 1..Len(Cols) : Cols[k] = c

\* columns_dtypes: a dict, iterated in insertion order; the requests drawn
\* name data columns after the first, in the table's column order
ColumnsDtypes ==
  {cd \in UNION {[1..k -> (SeqToSet(Cols) \ {Cols[1]}) \X DTypes] : k \in 1..MaxCd} :
     \A i, j \in 1..Len(cd) : i < j => ColPos(cd[i][1]) < ColPos(cd[j][1])}

FillValues == {Null, PyStr(<<"1">>)}

\* fillna(value=None) raises ValueError ("Must specify a fill 'value' or
\* 'method'") after the loop has already written the columns
values_format(cd, arg, fill_empty) ==
  \E target \in {IF arg = "none" THEN "o_df" ELSE arg} :
  \E df \in {heap[target]} :
  \E known \in {check_with_headers(cd, df)} :
  \E loop \in {IF known THEN FormatColumns(df, cd, 1, fill_empty)
                ELSE [ok |-> FALSE, table |-> df]} :
  \E ok \in {known /\ loop.ok /\ fill_empty # Null} :
  \E err \in {IF ~known THEN "UnknownColumn"
               ELSE IF ~loop.ok THEN "Unconvertible"
               ELSE IF fill_empty = Null THEN "ValueError" ELSE ""} :
  \E written \in {loop.table} :
  \E h1 \in {[heap EXCEPT ![target] = written]} :
     /\ nformat' = nformat + 1
     /\ heap' = IF ok THEN [h1 EXCEPT !["o_ret"] = FillNa(written, fill_empty)] ELSE h1
     /\ ret' = IF ok THEN "o_ret" ELSE ret
     /\ last' = [op |-> "values_format", arg |-> arg, ok |-> ok, err |-> err,
                 before |-> df, after |-> written,
                 cd |-> cd, fill |-> fill_empty,
                 again |-> Again("values_format", target, cd, fill_empty)]
     /\ UNCHANGED <<self_flagged, description, unique_identifiers, methods>>

(* --------------------------- specification ----------------------------- *)
\* values_format targets self.df when no table is passed, so passing the
\* constructor's table is the same call
FormatArgs == Args \ {"o_df"}

\* the requests the engine specification makes of values_format
EngineDtypes == {<<<<"postcode", "int">>>>}

Next ==
  \/ \E arg \in Args : flag(arg)
  \/ \E arg \in Args : describe(arg)
  \/ \E arg \in Args : clean(arg)
  \/ \E cd \in EngineDtypes, arg \in FormatArgs, fill_empty \in FillValues :
        nformat < MaxEngineFormat /\ values_format(cd, arg, fill_empty)

Spec == Init /\ [][Next]_vars

\* values_format alone, over every request, on the tables of few rows
InitFormat == \E table \in FormatTables : Construct(table, METHODS)

NextFormat ==
  \E cd \in ColumnsDtypes, arg \in FormatArgs, fill_empty \in FillValues :
     nformat < MaxFormat /\ values_format(cd, arg, fill_empty)

SpecFormat == InitFormat /\ [][NextFormat]_vars

\* flag, describe and clean on longer tables
InitRows == \E table \in DupTables, m \in SUBSET METHODS : Construct(table, m)

NextRows ==
  \/ \E arg \in Args : flag(arg)
  \/ \E arg \in Args : describe(arg)
  \/ \E arg \in Args : clean(arg)

SpecRows == InitRows /\ [][NextRows]_vars

(* ------------------------------ claims --------------------------------- *)
\* the table the latest call returned
Result == heap[ret]

Kept(tb, label) == \E k \in 1..Len(tb.rows) : tb.rows[k].idx = label

\* C1: clean removes exactly the rows whose duplicates flag is 1: a row of the
\* flagged target is absent from the cleaned table if and only if its
\* duplicates value is 1, whatever its first-column value.
C1_CleanRemovesExactlyFlagged ==
  (last.op = "clean" /\ last.ok /\ HasColumn(last.before, "duplicates")) =>
     \A i \in 1..Len(last.before.rows) :
        ~Kept(Result, last.before.rows[i].idx)
          <=> last.before.rows[i].cells["duplicates"] = PyInt(1)

\* C2: the table clean returns holds only the data columns of its target,
\* never the flag columns duplicates or null.
C2_CleanedHasNoFlagColumns ==
  (last.op = "clean" /\ last.ok) =>
     ~HasColumn(Result, "duplicates") /\ ~HasColumn(Result, "null")

\* C3: flag, describe and clean never modify a table supplied by the caller:
\* the table given to the constructor is left as it was by every such call,
\* and so is the table passed as the call's argument.
C3_CallerTablesUntouched ==
  [][last'.op \in {"flag", "describe", "clean"} =>
       /\ heap'["o_df"] = heap["o_df"]
       /\ last'.arg # "none" => last'.after = last'.before]_vars

C3_Witness ==
  /\ last.op = "flag" /\ last.ok /\ last.arg = "o_df"
  /\ HasColumn(Result, "duplicates") /\ HasColumn(Result, "null")
  /\ ~HasColumn(heap["o_df"], "duplicates") /\ ~HasColumn(heap["o_df"], "null")
  /\ last.after = last.before

\* the columns, other than the first, whose count in the description is at
\* least half of the largest count
HalfOfMax(df, desc) ==
  {c \in SeqToSet(df.columns) \ {df.columns[1]} :
     \A d \in SeqToSet(desc.columns) : 2 * desc.count[c] >= desc.count[d]}

InferredAtConstruction ==
  last.op = "init" => SeqToSet(unique_identifiers) = HalfOfMax(heap["o_df"], description)

\* C4: the Unique Identifier Set is, after construction, exactly the columns
\* other than the first whose non-null count in the initial Description is at
\* least half of the maximum count, and no call of flag, describe, clean or
\* values_format changes it.
C4_IdentifiersFixedAtConstruction ==
  []InferredAtConstruction /\ [][unique_identifiers' = unique_identifiers]_vars

C4_Witness ==
  /\ last.op = "clean" /\ last.ok /\ nformat > 0
  /\ HasColumn(heap[self_flagged], "duplicates")
  /\ Len(unique_identifiers) = 1

\* C5 as stated: values_format applied a second time, with the same
\* columns_dtypes and fill_empty, to the table the first call returned changes
\* no cell of it.
C5_SecondPassChangesNothing ==
  [][last'.op = "values_format" /\ last'.again => heap'["o_ret"] = heap["o_ret"]]_vars

\* C5 amended: the second pass changes no cell that held a value (neither
\* missing nor the empty string) before the first call; only cells the first
\* pass filled with fill_empty can be coerced by the second.
C5_SecondPassKeepsCoercedCells ==
  [][last'.op = "values_format" /\ last'.again =>
       /\ heap'["o_ret"].columns = heap["o_ret"].columns
       /\ Len(heap'["o_ret"].rows) = Len(heap["o_ret"].rows)
       /\ \A i \in 1..Len(heap["o_ret"].rows) :
            \A c \in SeqToSet(heap["o_ret"].columns) :
               last.before.rows[i].cells[c] \notin {Null, PyStr(<< >>)} =>
                  heap'["o_ret"].rows[i].cells[c] = heap["o_ret"].rows[i].cells[c]]_vars

C5_Witness ==
  /\ last.op = "values_format" /\ last.again /\ last.ok
  /\ \E i \in 1..Len(last.before.rows) :
        /\ last.before.rows[i].cells["postcode"] = PyInt(1)
        /\ Result.rows[i].cells["postcode"] = PyInt(1)
        /\ last.before.rows[i].cells["surface"] = last.fill
        /\ Result.rows[i].cells["surface"] # last.fill

\* the coercion rules as the specification lists them
RuleApplies(v, requested) ==
  \/ v.t = "str" /\ requested = "int" /\ isnumeric(v.s)
  \/ v.t = "str" /\ requested = "float" /\ isnumeric(v.s)
  \/ v.t = "str" /\ requested = "yn"
       /\ v.s \in {<<"1">>, <<"T", "r", "u", "e">>, <<"0">>, <<"F", "a", "l", "s", "e">>}
  \/ v.t = "bool" /\ requested = "yn"
  \/ v.t = "int" /\ requested = "float"
  \/ v.t = "float" /\ requested = "int" /\ v.n % 10 = 0
  \/ requested = "str"

NoRuleApplies(v, requested) ==
  /\ v \notin {Null, PyStr(<< >>)}
  /\ v.t # requested
  /\ ~RuleApplies(v, requested)

\* C6: a call of values_format that meets, in a requested column, a value
\* whose type differs from the requested one and that no coercion rule
\* covers fails with the unconvertible-value error.
C6_NoRuleRaises ==
  (/\ last.op = "values_format"
   /\ check_with_headers(last.cd, last.before)
   /\ \E k \in 1..Len(last.cd) : \E i \in 1..Len(last.before.rows) :
         NoRuleApplies(last.before.rows[i].cells[last.cd[k][1]], last.cd[k][2]))
    => last.err = "Unconvertible"

\* C7: a call of values_format that fails with the unconvertible-value error
\* leaves the table it was aimed at as it was before the call.
C7_FailureLeavesTargetUntouched ==
  (last.op = "values_format" /\ last.err = "Unconvertible") => last.after = last.before

\* a row of tb before row i that has the same value as row i in every column
\* of ids
EarlierSame(tb, i, ids) ==
  \E j \in 1..(i - 1) :
     \A k \in 1..Len(ids) : tb.rows[j].cells[ids[k]] = tb.rows[i].cells[ids[k]]

FlagColumns(tb) == {c \in {"duplicates", "null"} : HasColumn(tb, c)}

\* C9: flagging again a table that flag has just flagged gives every row the
\* same duplicates value and the same null count as the first flagging.
C9_FlagIdempotent ==
  (last.op = "flag" /\ last.again) =>
     /\ last.ok
     /\ FlagColumns(Result) = FlagColumns(last.before)
     /\ \A i \in 1..Len(Result.rows) : \A c \in FlagColumns(Result) :
           Result.rows[i].cells[c] = last.before.rows[i].cells[c]

C9_Witness ==
  /\ last.op = "flag" /\ last.again /\ last.ok /\ methods = METHODS
  /\ \E i \in 1..Len(Result.rows) : Result.rows[i].cells["duplicates"] = PyInt(1)
  /\ \E i \in 1..Len(Result.rows) : Result.rows[i].cells["null"] = PyInt(1)
  /\ \E i \in 1..Len(Result.rows) : Result.rows[i].cells["null"] = PyInt(0)

\* rows i and j agree on every column of ids and are both missing in one
AgreeThroughNull(tb, i, j, ids) ==
  /\ \A k \in 1..Len(ids) : tb.rows[i].cells[ids[k]] = tb.rows[j].cells[ids[k]]
  /\ \E k \in 1..Len(ids) : tb.rows[i].cells[ids[k]] = Null

\* C10 as stated: two rows that agree on the identifier columns only because
\* both are missing in the same columns both get duplicates = 0.
C10_NullsNeverMatch ==
  (last.op = "flag" /\ last.ok /\ "duplicates" \in methods) =>
     \A i, j \in 1..Len(Result.rows) :
        (i < j /\ AgreeThroughNull(last.before, i, j, unique_identifiers)) =>
           /\ Result.rows[i].cells["duplicates"] = PyInt(0)
           /\ Result.rows[j].cells["duplicates"] = PyInt(0)

\* C10 amended: missing values match each other: of two rows that agree on
\* every identifier column, two missing values in the same column counting as
\* agreeing, the later one gets duplicates = 1.
C10_NullsMatch ==
  (last.op = "flag" /\ last.ok /\ "duplicates" \in methods) =>
     \A i, j \in 1..Len(Result.rows) :
        (i < j /\ AgreeThroughNull(last.before, i, j, unique_identifiers)) =>
           Result.rows[j].cells["duplicates"] = PyInt(1)

C10_Witness ==
  /\ last.op = "flag" /\ last.ok /\ "duplicates" \in methods
  /\ \E i, j \in 1..Len(Result.rows) :
        /\ i < j /\ AgreeThroughNull(last.before, i, j, unique_identifiers)
        /\ Result.rows[i].cells["duplicates"] = PyInt(0)
        /\ Result.rows[j].cells["duplicates"] = PyInt(1)

\* the objects whose table carries a duplicates column
DuplicatesStored == {o \in Objs : HasColumn(heap[o], "duplicates")}

\* a clean aimed at a table without a duplicates column returned every row of
\* it, cell for cell
CleanKeepsEveryRow ==
  (last.op = "clean" /\ last.ok /\ ~HasColumn(last.before, "duplicates")) =>
     /\ Len(Result.rows) = Len(last.before.rows)
     /\ \A i \in 1..Len(Result.rows) :
           /\ Result.rows[i].idx = last.before.rows[i].idx
           /\ \A c \in SeqToSet(last.before.columns) :
                 Result.rows[i].cells[c] = last.before.rows[i].cells[c]

\* C11: clean never computes the duplicates flag itself: aimed at a table
\* without a duplicates column it returns every row, duplicates included; no
\* table carries a duplicates column after construction, and the first one
\* to carry it is stored by a successful flag with "duplicates" requested, so
\* clean removes rows only after such a flag.
C11_CleanRemovesOnlyAfterFlag ==
  /\ DuplicatesStored = {}
  /\ []CleanKeepsEveryRow
  /\ [][(DuplicatesStored = {} /\ DuplicatesStored' # {}) =>
          (last'.op = "flag" /\ last'.ok /\ "duplicates" \in methods)]_vars

C11_Witness ==
  /\ last.op = "clean" /\ last.ok /\ last.arg = "o_df"
  /\ ~HasColumn(last.before, "duplicates")
  /\ "duplicates" \in methods
  /\ HasColumn(heap[self_flagged], "duplicates")
  /\ Len(Result.rows) = 4
  /\ \E i \in 1..Len(last.before.rows) : EarlierSame(last.before, i, unique_identifiers)

C11_RemovalReached ==
  /\ last.op = "clean" /\ last.ok /\ last.arg = "none"
  /\ HasColumn(last.before, "duplicates")
  /\ Len(Result.rows) < Len(last.before.rows)

====
